---------------------------- MODULE Spec2Model ----------------------------
(***************************************************************************)
(* A model of cheesy-mcp: the CheeseScraper discovery pipeline             *)
(* (src/cheese_scraper.py) and the CheeseScrapingAgent run that merges     *)
(* the discovered candidates into the persisted agent state                *)
(* (src/cheese_agent.py).                                                  *)
(*                                                                         *)
(* Spec          the agent: one process per run (__init__ then run()),     *)
(*               several runs against the same state file and the same    *)
(*               output directory.                                         *)
(* FairSpec      Spec with weak fairness of the steps of a started run.    *)
(* SpecValidate  save_base64_image applied once to every payload of the    *)
(*               payload table, for every cheese type.                     *)
(* SpecDiscover  find_and_download_candidates called on its own, as the    *)
(*               scraper's __main__ does, for every target count up to     *)
(*               MaxTarget.                                                *)
(* SpecLoad      __init__ against a state file with any content.           *)
(* SpecFetch     scrape_image_data called once for every page of up to     *)
(*               MaxElements elements and every limit up to MaxLimit.      *)
(***************************************************************************)
EXTENDS Integers, Sequences, FiniteSets, TLC

VARIABLES
    state_file,         \* content of agent_state.json
    disk,               \* files of scraped_cheese_images/: {[name, data]}
    today,              \* the calendar date (datetime.now())
    runs,               \* processes started so far
    pc,                 \* position of the agent process
    scraper,            \* self.scraper: TRUE a CheeseScraper, FALSE None
    state,              \* self.state
    today_str,          \* run(): today_str
    type_idx,           \* find_and_download_candidates: index of cheese_type
    in_images,          \* ... TRUE inside the loop over image_data_list
    in_fetch,           \* scrape_image_data: "no" not in the call, "try", "finally"
    driver,             \* scrape_image_data: driver (TRUE a WebDriver, FALSE None)
    image_data_list,    \* the payloads scrape_image_data collects and returns
    img_idx,            \* ... index of b64_data in image_data_list
    candidates_found,   \* ... candidates_found
    processed_count,    \* ... processed_count
    max_total_images,   \* ... max_total_images
    loaded,             \* history: the state load_agent_state returned
    file_at_start,      \* history: the state file when the process started
    outcome,            \* history: how the body of run() ended
    save_result,        \* history: what save_agent_state did in this run
    max_loaded_total,   \* history: largest total_images_scraped loaded by an earlier run
    open_sessions,      \* history: browser sessions started and not quit
    fetch_log,          \* history: the calls of scrape_image_data, in order:
                        \* the category, how the call failed, how many
                        \* payloads it returned
    call                \* SpecValidate: the save_base64_image call and its result

vars == <<state_file, disk, today, runs, pc, scraper, state, today_str,
          type_idx, in_images, in_fetch, driver, image_data_list, img_idx,
          candidates_found, processed_count, max_total_images, loaded,
          file_at_start, outcome, save_result, max_loaded_total, open_sessions,
          fetch_log, call>>

agent_vars == <<state_file, today, runs, pc, scraper, state, today_str,
                type_idx, in_images, in_fetch, driver, image_data_list, img_idx,
                candidates_found, processed_count, max_total_images,
                loaded, file_at_start, outcome, save_result, max_loaded_total,
                open_sessions, fetch_log>>

---------------------------------------------------------------------------
(* Bounds of the model *)

\* number of agent processes (runs) started against the state file
MaxRuns == 3
\* number of calendar dates
MaxDay == 2
\* largest target count find_and_download_candidates is called with on its own
MaxTarget == 3
\* scrape_image_data on its own: most <g-img> elements on a page, largest limit
MaxElements == 4
MaxLimit == 3

---------------------------------------------------------------------------
(* Program constants *)

cheese_types == <<"semi soft", "bloomy", "blue", "hard", "washed rind", "fresh">>

min_width == 100
min_height == 100
max_file_size == 10485760
daily_target == 10

\* Python's None, where a path (a tuple) is expected
None == <<>>

\* the categories the model iterates: the first two of cheese_types
Types == <<cheese_types[1], cheese_types[2]>>

---------------------------------------------------------------------------
(* Payloads: the inline data URIs a page can hold.  sep: the string has a  *)
(* ","; b64: b64decode accepts the body; len: length of the decoded bytes; *)
(* img: PIL can open the bytes; w, h: the image's size; md5: the first 10  *)
(* hex digits of md5(payload); bytes: the first 8 hex digits of            *)
(* md5(decoded bytes); utf8: str.encode() accepts the string (FALSE: it    *)
(* holds a lone surrogate).  Payloads 10 and 11 share payload 1's md5      *)
(* prefix; payload 10 is payload 1's image under another header.           *)

Payload == <<
    [utf8 |-> TRUE, sep |-> TRUE,  b64 |-> TRUE,  len |-> 20000,    img |-> TRUE,  w |-> 200, h |-> 200, md5 |-> "a1", bytes |-> "c1"],
    [utf8 |-> TRUE, sep |-> TRUE,  b64 |-> TRUE,  len |-> 10485760, img |-> TRUE,  w |-> 100, h |-> 100, md5 |-> "a2", bytes |-> "c2"],
    [utf8 |-> TRUE, sep |-> TRUE,  b64 |-> TRUE,  len |-> 3000,     img |-> TRUE,  w |-> 50,  h |-> 50,  md5 |-> "a3", bytes |-> "c3"],
    [utf8 |-> TRUE, sep |-> TRUE,  b64 |-> TRUE,  len |-> 5,        img |-> FALSE, w |-> 0,   h |-> 0,   md5 |-> "a4", bytes |-> "c4"],
    [utf8 |-> TRUE, sep |-> FALSE, b64 |-> TRUE,  len |-> 20000,    img |-> TRUE,  w |-> 200, h |-> 200, md5 |-> "a5", bytes |-> "c5"],
    [utf8 |-> TRUE, sep |-> TRUE,  b64 |-> FALSE, len |-> 20000,    img |-> TRUE,  w |-> 200, h |-> 200, md5 |-> "a6", bytes |-> "c6"],
    [utf8 |-> TRUE, sep |-> TRUE,  b64 |-> TRUE,  len |-> 11534336, img |-> TRUE,  w |-> 200, h |-> 200, md5 |-> "a7", bytes |-> "c7"],
    [utf8 |-> TRUE, sep |-> TRUE,  b64 |-> TRUE,  len |-> 10485761, img |-> TRUE,  w |-> 200, h |-> 200, md5 |-> "a8", bytes |-> "c8"],
    [utf8 |-> TRUE, sep |-> TRUE,  b64 |-> TRUE,  len |-> 9000,     img |-> TRUE,  w |-> 99,  h |-> 200, md5 |-> "a9", bytes |-> "c9"],
    [utf8 |-> TRUE, sep |-> TRUE,  b64 |-> TRUE,  len |-> 20000,    img |-> TRUE,  w |-> 200, h |-> 200, md5 |-> "a1", bytes |-> "c1"],
    [utf8 |-> TRUE, sep |-> TRUE,  b64 |-> TRUE,  len |-> 3000,     img |-> TRUE,  w |-> 200, h |-> 99,  md5 |-> "a1", bytes |-> "c11"],
    [utf8 |-> FALSE, sep |-> TRUE,  b64 |-> TRUE,  len |-> 20000,    img |-> TRUE,  w |-> 200, h |-> 200, md5 |-> "a12", bytes |-> "c12"]
>>

PayloadIds == 1..Len(Payload)

---------------------------------------------------------------------------
(* The output directory *)

file_prefix == <<"semi_soft", "bloomy", "blue", "hard", "washed_rind", "fresh">>

\* f"{cheese_type.replace(' ', '_')}_{file_hash}.jpg"
Filename(t, p) == <<file_prefix[t], Payload[p].md5, ".jpg">>

Exists(d, name) == \E f \in d : f.name = name
Unlink(d, name) == {f \in d : f.name # name}
\* the file holds the decoded bytes, known by their hash
Write(d, name, p) == Unlink(d, name) \cup {[name |-> name, data |-> Payload[p].bytes]}
ReadBytes(d, name) == (CHOOSE f \in d : f.name = name).data

\* self.output_dir / filename
FilePath(filename) == <<"scraped_cheese_images">> \o filename

\* a variant of save_base64_image that checks the byte limit only after the
\* file is written

save_base64_image_size_after_write(d, p, filename) ==
    LET pl == Payload[p]
        written == Write(d, filename, p)
    IN  IF ~pl.sep \/ ~pl.b64
        THEN [ret |-> None, disk |-> d, trace |-> <<>>]
        ELSE IF ~pl.img
        THEN [ret |-> None, disk |-> written, trace |-> <<"write">>]
        ELSE IF pl.len > max_file_size \/ pl.w < min_width \/ pl.h < min_height
        THEN [ret |-> None, disk |-> Unlink(written, filename),
              trace |-> <<"write", "unlink">>]
        ELSE [ret |-> FilePath(filename), disk |-> written, trace |-> <<"write">>]

\* save_base64_image: the value returned, the directory afterwards and the
\* file operations performed, in order.
save_base64_image(d, p, filename) ==
    LET pl == Payload[p]
        written == Write(d, filename, p)
    IN  IF ~pl.sep
        THEN \* line 124: unpacking the split raises ValueError
             [ret |-> None, disk |-> d, trace |-> <<>>]
        ELSE IF ~pl.b64
        THEN \* line 125: b64decode raises
             [ret |-> None, disk |-> d, trace |-> <<>>]
        ELSE IF pl.len > max_file_size
        THEN \* lines 127-129
             [ret |-> None, disk |-> d, trace |-> <<>>]
        ELSE IF ~pl.img
        THEN \* lines 132-133 wrote the file, Image.open raises at line 136;
             \* the handler at lines 144-146 does not remove the file
             [ret |-> None, disk |-> written, trace |-> <<"write">>]
        ELSE IF pl.w < min_width \/ pl.h < min_height
        THEN \* lines 137-140
             [ret |-> None, disk |-> Unlink(written, filename),
              trace |-> <<"write", "unlink">>]
        ELSE \* line 142
             [ret |-> FilePath(filename), disk |-> written, trace |-> <<"write">>]

---------------------------------------------------------------------------
(* scrape_image_data.  A page is the sequence of its <g-img> elements: a   *)
(* payload id for an element whose <img> has a data:image src, 0 for an    *)
(* element without one (no <img>, no src, another scheme).                 *)

Range(seq) == {seq[i] : i \in 1..Len(seq)}

Take(seq, n) == SubSeq(seq, 1, IF n < Len(seq) THEN n ELSE Len(seq))

RECURSIVE collect_sources(_, _)

\* a variant of collect_sources whose handler (lines 104-105) ends the loop
\* at the first element without a data:image source
collect_sources_until_miss(elements, acc) ==
    IF elements = <<>> \/ Head(elements) = 0 THEN acc
    ELSE collect_sources(Tail(elements),
                         IF Head(elements) \notin Range(acc)
                         THEN Append(acc, Head(elements)) ELSE acc)

\* lines 96-105: the loop over g_img_elements
collect_sources(elements, acc) ==
    IF elements = <<>> THEN acc
    ELSE LET src == Head(elements)
         IN  IF src # 0 /\ src \notin Range(acc)
             THEN collect_sources(Tail(elements), Append(acc, src))
             ELSE collect_sources(Tail(elements), acc)

\* fetch.ok = FALSE: the driver cannot start, get() raises, or the wait for
\* "g-img img" times out; the handler at lines 114-116 returns []
scrape_image_data(fetch, max_images) ==
    IF ~fetch.ok THEN <<>>
    ELSE Take(collect_sources(fetch.page, <<>>), max_images)

\* the pages a search can return
Pages == { <<>>, <<0, 1, 1>>, <<1, 10>>, <<5, 6, 1>>, <<7, 3, 1>>,
           <<1, 11>>, <<1, 12>> }

Fetches == {[ok |-> TRUE, page |-> pg] : pg \in Pages}
             \cup {[ok |-> FALSE, page |-> <<>>]}

---------------------------------------------------------------------------
(* find_and_download_candidates *)

\* line 188
images_per_type(max_total) == max_total \div Len(Types) + 1

\* analyze_image_content and lines 206-211; src is a history field: the
\* payload the candidate was made from
Candidate(t, p, filename, path, date) ==
    [id |-> filename, file_path |-> path, cheese_type |-> Types[t],
     metadata |-> [tags |-> <<"cheese", Types[t]>>,
                   context |-> [source |-> "google-images",
                                license |-> "creative-commons",
                                scrape_date |-> date]],
     src |-> p]

\* a variant of add_candidate without the test of line 200
add_candidate_unchecked(found, t, p, filename, path, date) ==
    Append(found, Candidate(t, p, filename, path, date))

\* lines 199-212: a rejected payload (file_path None) adds nothing
add_candidate(found, t, p, filename, path, date) ==
    IF path = None THEN found
    ELSE Append(found, Candidate(t, p, filename, path, date))

---------------------------------------------------------------------------
(* The agent state and the state file *)

\* strftime('%Y-%m-%d') of the model's dates
iso_dates == <<"2025-06-01", "2025-06-02", "2025-06-03", "2025-06-04", "2025-06-05">>
strftime(day) == iso_dates[day]

StateKeys == {"total_images_scraped", "pending_uploads", "daily_stats"}

\* the empty dict {}
EmptyDict == [k \in {} |-> 0]

default_state ==
    [total_images_scraped |-> 0, pending_uploads |-> <<>>, daily_stats |-> EmptyDict]

Absent == [kind |-> "absent", value |-> EmptyDict]
\* a file json.load cannot parse: empty or cut short
Unparsable == [kind |-> "unparsable", value |-> EmptyDict]
\* a file that holds a JSON object
Json(value) == [kind |-> "json", value |-> value]
\* a file that holds another JSON value.  kind "array" or "string": value is
\* the set of strings s for which Python's `s in state` is True (the
\* elements of the array, the substrings of the string); kind "scalar" (a
\* number, true, false, null): `s in state` raises TypeError
JsonOther(kind, contained) == [kind |-> kind, value |-> contained]

\* what json.load returned when it is not a dict: it has no key
NotADict(file) == [not_a_dict |-> file]

\* load_agent_state
load_agent_state(file) ==
    CASE file.kind = "json" ->
            \* lines 63-66
            [k \in StateKeys \cup DOMAIN file.value |->
                IF k \in DOMAIN file.value THEN file.value[k] ELSE default_state[k]]
      [] file.kind \in {"array", "string"} ->
            \* line 64 is False for a key the value contains; for the first
            \* key it does not contain, line 65 raises TypeError (lines 67-70)
            IF StateKeys \subseteq file.value THEN NotADict(file) ELSE default_state
      [] OTHER ->
            \* line 59, or json.load or line 64 raises (lines 67-70)
            default_state

SaveOutcomes == {"ok", "open_fails", "dump_fails"}

\* save_agent_state: the file afterwards.  open(..., 'w') truncates the
\* file before json.dump writes into it.
write_state(file, st, result) ==
    CASE result = "ok" -> Json(st)
      [] result = "open_fails" -> file
      [] result = "dump_fails" -> Unparsable

---------------------------------------------------------------------------
(* run(): building the queue entries and merging them *)

\* lines 103-113.  added is a history field: the today_str of the run that
\* built the entry.
QueueEntry(cand, d, day) ==
    [file_path |-> <<"file://">> \o cand.file_path,
     public_id |-> <<"cheese-collection/", cand.id[1], cand.id[2],
                     ReadBytes(d, cand.id)>>,
     tags |-> cand.metadata.tags,
     context |-> <<cand.metadata.context.source, cand.metadata.context.license,
                   cand.metadata.context.scrape_date>>,
     added |-> day]

\* line 104 raises when a candidate's file is not there
hash_fails(cands, d) == \E i \in 1..Len(cands) : ~Exists(d, cands[i].id)

\* lines 101-113
pending_list(cands, d, day) ==
    [i \in 1..Len(cands) |-> QueueEntry(cands[i], d, day)]

\* a variant of merge_step without line 121
merge_step_unrecorded(acc, item) ==
    IF item.file_path \notin acc.existing
    THEN [uploads |-> Append(acc.uploads, item),
          existing |-> acc.existing,
          added |-> acc.added + 1]
    ELSE acc

\* a variant of merge_step with line 122 outside the test of line 119
merge_step_counts_queued(acc, item) ==
    IF item.file_path \notin acc.existing
    THEN [uploads |-> Append(acc.uploads, item),
          existing |-> acc.existing \cup {item.file_path},
          added |-> acc.added + 1]
    ELSE [acc EXCEPT !.added = @ + 1]

\* lines 119-122
merge_step(acc, item) ==
    IF item.file_path \notin acc.existing
    THEN [uploads |-> Append(acc.uploads, item),
          existing |-> acc.existing \cup {item.file_path},
          added |-> acc.added + 1]
    ELSE acc

RECURSIVE merge_loop(_, _)
\* lines 118-122
merge_loop(acc, items) ==
    IF items = <<>> THEN acc
    ELSE merge_loop(merge_step(acc, Head(items)), Tail(items))

\* lines 116-122
merge_uploads(pending, items) ==
    merge_loop([uploads |-> pending,
                existing |-> {pending[i].file_path : i \in 1..Len(pending)},
                added |-> 0], items)

\* a variant of new_candidates_added that counts the candidates
candidates_discovered(pending, items) == Len(items)

\* new_candidates_added after the loop of lines 118-122
new_candidates_added(pending, items) == merge_uploads(pending, items).added

\* a variant of update_daily_stats that sets the bucket instead of adding
daily_stats_overwritten(stats, day, n) ==
    [d \in DOMAIN stats \cup {day} |->
        IF d = day THEN [scraped |-> n] ELSE stats[d]]

\* lines 127-129
update_daily_stats(stats, day, n) ==
    [d \in DOMAIN stats \cup {day} |->
        IF d = day
        THEN [scraped |-> (IF day \in DOMAIN stats THEN stats[day].scraped ELSE 0) + n]
        ELSE stats[d]]

\* a variant of merge_state that adds the number of candidates to the total
merge_state_adds_candidates(st, items, day) ==
    LET n == new_candidates_added(st.pending_uploads, items)
    IN  [total_images_scraped |-> st.total_images_scraped + Len(items),
         pending_uploads |-> merge_uploads(st.pending_uploads, items).uploads,
         daily_stats |-> update_daily_stats(st.daily_stats, day, n)]

\* lines 116-129
merge_state(st, items, day) ==
    LET n == new_candidates_added(st.pending_uploads, items)
    IN  [total_images_scraped |-> st.total_images_scraped + n,
         pending_uploads |-> merge_uploads(st.pending_uploads, items).uploads,
         daily_stats |-> update_daily_stats(st.daily_stats, day, n)]

---------------------------------------------------------------------------
(* The agent process *)

NoCall == [type |-> 1, payload |-> 1, before |-> {}, done |-> FALSE,
           result |-> [ret |-> None, disk |-> {}, trace |-> <<>>]]

Max(a, b) == IF a > b THEN a ELSE b

\* the values the locals of a process hold while no process runs
NoProcess ==
    /\ scraper = FALSE
    /\ state = default_state
    /\ today_str = ""
    /\ type_idx = 1
    /\ in_images = FALSE
    /\ in_fetch = "no"
    /\ driver = FALSE
    /\ open_sessions = 0
    /\ fetch_log = <<>>
    /\ image_data_list = <<>>
    /\ img_idx = 1
    /\ candidates_found = <<>>
    /\ processed_count = 0
    /\ max_total_images = 0
    /\ loaded = default_state
    /\ file_at_start = Absent
    /\ outcome = "none"
    /\ save_result = "none"

Init ==
    /\ state_file = Absent
    /\ disk = {}
    /\ today = 1
    /\ runs = 0
    /\ pc = "Idle"
    /\ max_loaded_total = 0
    /\ call = NoCall
    /\ NoProcess

discovery_vars == <<type_idx, in_images, in_fetch, driver, image_data_list,
                    img_idx, candidates_found, processed_count,
                    max_total_images, open_sessions, fetch_log>>
history_vars == <<loaded, file_at_start, outcome, save_result, max_loaded_total>>

\* __init__: lines 40-49.  CheeseScraper() either returns or raises.
Construct ==
    /\ pc = "Idle"
    /\ runs < MaxRuns
    /\ runs' = runs + 1
    /\ state' = load_agent_state(state_file)
    /\ loaded' = load_agent_state(state_file)
    /\ file_at_start' = state_file
    /\ \E ok \in BOOLEAN : scraper' = ok
    /\ pc' = "Constructed"
    /\ UNCHANGED <<state_file, disk, today, today_str, discovery_vars,
                   outcome, save_result, max_loaded_total, call>>

\* a variant of RunAbort that saves the state before it returns
RunAbort_saving ==
    /\ pc = "Constructed"
    /\ ~scraper
    /\ outcome' = "aborted"
    /\ state_file' = write_state(state_file, state, "ok")
    /\ save_result' = "ok"
    /\ pc' = "Aborted"
    /\ UNCHANGED <<disk, today, runs, scraper, state, today_str,
                   discovery_vars, loaded, file_at_start,
                   max_loaded_total, call>>

\* run(), lines 84-86
RunAbort ==
    /\ pc = "Constructed"
    /\ ~scraper
    /\ outcome' = "aborted"
    /\ pc' = "Aborted"
    /\ UNCHANGED <<state_file, disk, today, runs, scraper, state, today_str,
                   discovery_vars, loaded, file_at_start, save_result,
                   max_loaded_total, call>>

\* run(), lines 88-93, and find_and_download_candidates, lines 175-176
RunStart ==
    /\ pc = "Constructed"
    /\ scraper
    /\ today_str' = strftime(today)
    /\ max_total_images' = daily_target
    /\ candidates_found' = <<>>
    /\ processed_count' = 0
    /\ type_idx' = 1
    /\ in_images' = FALSE
    /\ image_data_list' = <<>>
    /\ img_idx' = 1
    /\ pc' = "Discovering"
    /\ UNCHANGED <<in_fetch, driver, open_sessions, fetch_log>>
    /\ UNCHANGED <<state_file, disk, today, runs, scraper, state,
                   history_vars, call>>

\* lines 180-189: the head of the loop over cheese_types, and the call of
\* scrape_image_data up to line 80: webdriver.Chrome() returns a driver or
\* raises
ScrapeType ==
    /\ pc = "Discovering"
    /\ ~in_images
    /\ in_fetch = "no"
    /\ type_idx <= Len(Types)
    /\ IF Len(candidates_found) >= max_total_images
       THEN /\ type_idx' = Len(Types) + 1
            /\ UNCHANGED <<in_fetch, driver, open_sessions, fetch_log,
                           image_data_list>>
       ELSE /\ \E started \in BOOLEAN :
                 /\ driver' = started
                 /\ open_sessions' = open_sessions + (IF started THEN 1 ELSE 0)
                 /\ in_fetch' = IF started THEN "try" ELSE "finally"
                 /\ fetch_log' = Append(fetch_log,
                        [type |-> type_idx, got |-> 0,
                         error |-> IF started THEN "none" ELSE "start"])
            /\ image_data_list' = <<>>
            /\ UNCHANGED type_idx
    /\ UNCHANGED <<state_file, disk, today, runs, pc, scraper, state, today_str,
                   in_images, img_idx, candidates_found, processed_count,
                   max_total_images, history_vars, call>>

\* a variant of ScanPage without the handler of lines 114-116: an error of
\* get(), of the wait or of the scan leaves find_and_download_candidates
ScanPage_propagates ==
    /\ pc = "Discovering"
    /\ in_fetch = "try"
    /\ \E fetch \in Fetches :
          /\ image_data_list' =
                scrape_image_data(fetch, images_per_type(max_total_images))
          /\ fetch_log' =
                [fetch_log EXCEPT ![Len(fetch_log)] =
                    [@ EXCEPT !.error = IF fetch.ok THEN "none" ELSE "scan",
                              !.got = Len(image_data_list')]]
          /\ pc' = IF fetch.ok THEN pc ELSE "Raised"
    /\ in_fetch' = "finally"
    /\ UNCHANGED <<state_file, disk, today, runs, scraper, state, today_str,
                   type_idx, in_images, driver, img_idx, candidates_found,
                   processed_count, max_total_images, history_vars,
                   open_sessions, call>>

\* scrape_image_data, lines 81-116: the page is loaded and scanned, or
\* get(), the wait or the scan raises; image_data_list becomes the value
\* the call is about to return
ScanPage ==
    /\ pc = "Discovering"
    /\ in_fetch = "try"
    /\ \E fetch \in Fetches :
          /\ image_data_list' =
                scrape_image_data(fetch, images_per_type(max_total_images))
          /\ fetch_log' =
                [fetch_log EXCEPT ![Len(fetch_log)] =
                    [@ EXCEPT !.error = IF fetch.ok THEN "none" ELSE "scan",
                              !.got = Len(image_data_list')]]
    /\ in_fetch' = "finally"
    /\ UNCHANGED <<state_file, disk, today, runs, pc, scraper, state, today_str,
                   type_idx, in_images, driver, img_idx, candidates_found,
                   processed_count, max_total_images, history_vars,
                   open_sessions, call>>

\* a variant of QuitDriver that quits the driver at the end of the try block
\* instead of in the finally block: not after an error
QuitDriver_after_success ==
    /\ pc = "Discovering"
    /\ in_fetch = "finally"
    /\ open_sessions' = open_sessions -
          (IF driver /\ fetch_log[Len(fetch_log)].error = "none" THEN 1 ELSE 0)
    /\ driver' = FALSE
    /\ in_fetch' = "no"
    /\ in_images' = TRUE
    /\ img_idx' = 1
    /\ UNCHANGED <<state_file, disk, today, runs, pc, scraper, state, today_str,
                   type_idx, image_data_list, candidates_found, processed_count,
                   max_total_images, history_vars, fetch_log, call>>

\* scrape_image_data, lines 117-119, and the return to line 191
QuitDriver ==
    /\ pc = "Discovering"
    /\ in_fetch = "finally"
    /\ open_sessions' = open_sessions - (IF driver THEN 1 ELSE 0)
    /\ driver' = FALSE
    /\ in_fetch' = "no"
    /\ in_images' = TRUE
    /\ img_idx' = 1
    /\ UNCHANGED <<state_file, disk, today, runs, pc, scraper, state, today_str,
                   type_idx, image_data_list, candidates_found, processed_count,
                   max_total_images, history_vars, fetch_log, call>>

\* a variant of ProcessImage without the test of lines 192-193
ProcessImage_uncapped ==
    /\ pc = "Discovering"
    /\ in_images
    /\ img_idx <= Len(image_data_list)
    /\ Payload[image_data_list[img_idx]].utf8
    /\ LET p == image_data_list[img_idx]
           r == save_base64_image(disk, p, Filename(type_idx, p))
       IN  /\ disk' = r.disk
           /\ candidates_found' =
                add_candidate(candidates_found, type_idx, p,
                              Filename(type_idx, p), r.ret, strftime(today))
    /\ processed_count' = processed_count + 1
    /\ img_idx' = img_idx + 1
    /\ UNCHANGED <<state_file, today, runs, pc, scraper, state, today_str,
                   type_idx, in_images, in_fetch, driver, image_data_list,
                   max_total_images, history_vars, open_sessions, fetch_log,
                   call>>

\* lines 191-216: one payload of image_data_list
ProcessImage ==
    /\ pc = "Discovering"
    /\ in_images
    /\ img_idx <= Len(image_data_list)
    /\ IF Len(candidates_found) >= max_total_images
       THEN /\ img_idx' = Len(image_data_list) + 1
            /\ UNCHANGED <<disk, candidates_found, processed_count>>
       ELSE /\ Payload[image_data_list[img_idx]].utf8
            /\ LET p == image_data_list[img_idx]
                   r == save_base64_image(disk, p, Filename(type_idx, p))
               IN  /\ disk' = r.disk
                   /\ candidates_found' =
                        add_candidate(candidates_found, type_idx, p,
                                      Filename(type_idx, p), r.ret, strftime(today))
            /\ processed_count' = processed_count + 1
            /\ img_idx' = img_idx + 1
    /\ UNCHANGED <<state_file, today, runs, pc, scraper, state, today_str,
                   type_idx, in_images, in_fetch, driver, image_data_list,
                   max_total_images, history_vars, open_sessions, fetch_log,
                   call>>

\* line 196: b64_data.encode() raises for a payload str.encode() does not
\* accept; nothing in find_and_download_candidates catches it, run() does
\* (lines 139-140)
DiscoveryRaises ==
    /\ pc = "Discovering"
    /\ in_images
    /\ img_idx <= Len(image_data_list)
    /\ Len(candidates_found) < max_total_images
    /\ ~Payload[image_data_list[img_idx]].utf8
    /\ processed_count' = processed_count + 1
    /\ outcome' = "raised"
    /\ pc' = "Finally"
    /\ UNCHANGED <<state_file, disk, today, runs, scraper, state, today_str,
                   type_idx, in_images, in_fetch, driver, image_data_list,
                   img_idx, candidates_found, max_total_images, loaded,
                   file_at_start, save_result, max_loaded_total, open_sessions,
                   fetch_log, call>>

\* lines 218-220: the end of one pass of the loop over cheese_types
EndType ==
    /\ pc = "Discovering"
    /\ in_images
    /\ img_idx > Len(image_data_list)
    /\ in_images' = FALSE
    /\ type_idx' = IF Len(candidates_found) >= max_total_images
                   THEN Len(Types) + 1 ELSE type_idx + 1
    /\ UNCHANGED <<state_file, disk, today, runs, pc, scraper, state, today_str,
                   in_fetch, driver, image_data_list, img_idx, candidates_found,
                   processed_count, max_total_images, history_vars,
                   open_sessions, fetch_log, call>>

\* a variant of ReturnCandidates whose early return skips the finally block
ReturnCandidates_unsaved ==
    /\ pc = "Discovering"
    /\ ~in_images
    /\ type_idx > Len(Types)
    /\ IF candidates_found = <<>>
       THEN outcome' = "empty" /\ pc' = "Aborted"
       ELSE outcome' = outcome /\ pc' = "Merging"
    /\ UNCHANGED <<state_file, disk, today, runs, scraper, state, today_str,
                   discovery_vars, loaded, file_at_start, save_result,
                   max_loaded_total, call>>

\* lines 222-223, and run(), lines 93-98
ReturnCandidates ==
    /\ pc = "Discovering"
    /\ ~in_images
    /\ type_idx > Len(Types)
    /\ IF candidates_found = <<>>
       THEN outcome' = "empty" /\ pc' = "Finally"
       ELSE outcome' = outcome /\ pc' = "Merging"
    /\ UNCHANGED <<state_file, disk, today, runs, scraper, state, today_str,
                   discovery_vars, loaded, file_at_start, save_result,
                   max_loaded_total, call>>

\* a variant of MergeRaises in which each entry is appended to
\* pending_uploads as soon as it is built: those before the failing one are
\* queued
MergeRaises_after_appending ==
    /\ pc = "Merging"
    /\ hash_fails(candidates_found, disk)
    /\ LET k == CHOOSE i \in 1..Len(candidates_found) :
                    /\ ~Exists(disk, candidates_found[i].id)
                    /\ \A j \in 1..(i - 1) : Exists(disk, candidates_found[j].id)
           built == pending_list(SubSeq(candidates_found, 1, k - 1), disk, today_str)
       IN  state' = [state EXCEPT
                        !.pending_uploads = merge_uploads(@, built).uploads]
    /\ outcome' = "raised"
    /\ pc' = "Finally"
    /\ UNCHANGED <<state_file, disk, today, runs, scraper, today_str,
                   discovery_vars, loaded, file_at_start, save_result,
                   max_loaded_total, call>>

\* lines 101-104: hashing a candidate's file raises; lines 139-140
MergeRaises ==
    /\ pc = "Merging"
    /\ hash_fails(candidates_found, disk)
    /\ outcome' = "raised"
    /\ pc' = "Finally"
    /\ UNCHANGED <<state_file, disk, today, runs, scraper, state, today_str,
                   discovery_vars, loaded, file_at_start, save_result,
                   max_loaded_total, call>>

\* lines 101-137
MergeCandidates ==
    /\ pc = "Merging"
    /\ ~hash_fails(candidates_found, disk)
    /\ state' = merge_state(state, pending_list(candidates_found, disk, today_str),
                            today_str)
    /\ outcome' = "merged"
    /\ pc' = "Finally"
    /\ UNCHANGED <<state_file, disk, today, runs, scraper, today_str,
                   discovery_vars, loaded, file_at_start, save_result,
                   max_loaded_total, call>>

\* a variant of SaveAgentState without the handler of lines 77-78: a failed
\* save leaves run() as an error
SaveAgentState_surfacing ==
    /\ pc = "Finally"
    /\ \E result \in SaveOutcomes :
          /\ state_file' = write_state(state_file, state, result)
          /\ save_result' = result
          /\ pc' = IF result = "ok" THEN "Persisted" ELSE "Surfaced"
    /\ UNCHANGED <<disk, today, runs, scraper, state, today_str, discovery_vars,
                   loaded, file_at_start, outcome, max_loaded_total, call>>

\* lines 141-142 and save_agent_state
SaveAgentState ==
    /\ pc = "Finally"
    /\ \E result \in SaveOutcomes :
          /\ state_file' = write_state(state_file, state, result)
          /\ save_result' = result
    /\ pc' = "Persisted"
    /\ UNCHANGED <<disk, today, runs, scraper, state, today_str, discovery_vars,
                   loaded, file_at_start, outcome, max_loaded_total, call>>

\* run() returns and the process ends (lines 144-146)
Exit ==
    /\ pc \in {"Persisted", "Aborted"}
    /\ pc' = "Idle"
    /\ max_loaded_total' = Max(max_loaded_total, loaded.total_images_scraped)
    /\ scraper' = FALSE
    /\ state' = default_state
    /\ today_str' = ""
    /\ type_idx' = 1
    /\ in_images' = FALSE
    /\ in_fetch' = "no"
    /\ driver' = FALSE
    /\ open_sessions' = 0
    /\ fetch_log' = <<>>
    /\ image_data_list' = <<>>
    /\ img_idx' = 1
    /\ candidates_found' = <<>>
    /\ processed_count' = 0
    /\ max_total_images' = 0
    /\ loaded' = default_state
    /\ file_at_start' = Absent
    /\ outcome' = "none"
    /\ save_result' = "none"
    /\ UNCHANGED <<state_file, disk, today, runs, call>>

\* midnight passes between two runs
Tick ==
    /\ pc = "Idle"
    /\ today < MaxDay
    /\ today' = today + 1
    /\ UNCHANGED <<state_file, disk, runs, pc, scraper, state, today_str,
                   discovery_vars, history_vars, call>>

\* the steps of a started run()
RunStep ==
    \/ RunAbort
    \/ RunStart
    \/ ScrapeType
    \/ ScanPage
    \/ QuitDriver
    \/ ProcessImage
    \/ DiscoveryRaises
    \/ EndType
    \/ ReturnCandidates
    \/ MergeRaises
    \/ MergeCandidates
    \/ SaveAgentState

Next == Construct \/ RunStep \/ Exit \/ Tick

Spec == Init /\ [][Next]_vars

\* a started run() runs on: the code is sequential and nothing preempts it
FairSpec == Spec /\ WF_vars(RunStep)

---------------------------------------------------------------------------
(* save_base64_image on its own: one call for a payload and a cheese type, *)
(* with the output directory empty or holding the file an earlier call for *)
(* the same file name left.                                                *)

LeavesFile(t, q) == save_base64_image({}, q, Filename(t, q)).disk # {}

PreDisks(t, p) ==
    {{}} \cup {{[name |-> Filename(t, p), data |-> Payload[q].bytes]} :
                 q \in {x \in PayloadIds : /\ Payload[x].md5 = Payload[p].md5
                                           /\ LeavesFile(t, x)}}

InitValidate ==
    /\ state_file = Absent
    /\ today = 1
    /\ runs = 0
    /\ pc = "Idle"
    /\ max_loaded_total = 0
    /\ NoProcess
    /\ \E t \in 1..Len(cheese_types), p \in PayloadIds :
          \E pre \in PreDisks(t, p) :
             /\ disk = pre
             /\ call = [type |-> t, payload |-> p, before |-> pre, done |-> FALSE,
                        result |-> [ret |-> None, disk |-> pre, trace |-> <<>>]]

ValidateCall ==
    /\ ~call.done
    /\ LET r == save_base64_image(disk, call.payload,
                                  Filename(call.type, call.payload))
       IN  /\ disk' = r.disk
           /\ call' = [call EXCEPT !.done = TRUE, !.result = r]
    /\ UNCHANGED agent_vars

NextValidate == ValidateCall

SpecValidate == InitValidate /\ [][NextValidate]_vars

---------------------------------------------------------------------------
(* find_and_download_candidates on its own (cheese_scraper.py, lines       *)
(* 225-227): a scraper, an empty output directory and one call with a      *)
(* target count.                                                           *)

InitDiscover ==
    /\ state_file = Absent
    /\ disk = {}
    /\ today = 1
    /\ runs = 0
    /\ max_loaded_total = 0
    /\ call = NoCall
    /\ pc = "Discovering"
    /\ scraper = TRUE
    /\ state = default_state
    /\ today_str = ""
    /\ type_idx = 1
    /\ in_images = FALSE
    /\ in_fetch = "no"
    /\ driver = FALSE
    /\ open_sessions = 0
    /\ fetch_log = <<>>
    /\ image_data_list = <<>>
    /\ img_idx = 1
    /\ candidates_found = <<>>
    /\ processed_count = 0
    /\ max_total_images \in 0..MaxTarget
    /\ loaded = default_state
    /\ file_at_start = Absent
    /\ outcome = "none"
    /\ save_result = "none"

\* line 196 raises and nothing in find_and_download_candidates catches it
DiscoverPropagates ==
    /\ pc = "Discovering"
    /\ in_images
    /\ img_idx <= Len(image_data_list)
    /\ Len(candidates_found) < max_total_images
    /\ ~Payload[image_data_list[img_idx]].utf8
    /\ processed_count' = processed_count + 1
    /\ pc' = "Raised"
    /\ UNCHANGED <<state_file, disk, today, runs, scraper, state, today_str,
                   type_idx, in_images, in_fetch, driver, image_data_list,
                   img_idx, candidates_found, max_total_images, history_vars,
                   open_sessions, fetch_log, call>>

\* lines 222-223: the loop over cheese_types has ended
DiscoverReturns ==
    /\ pc = "Discovering"
    /\ ~in_images
    /\ type_idx > Len(Types)
    /\ pc' = "Returned"
    /\ UNCHANGED <<state_file, disk, today, runs, scraper, state, today_str,
                   discovery_vars, history_vars, call>>

NextDiscover ==
    \/ ScrapeType
    \/ ScanPage
    \/ QuitDriver
    \/ ProcessImage
    \/ EndType
    \/ DiscoverPropagates
    \/ DiscoverReturns

SpecDiscover == InitDiscover /\ [][NextDiscover]_vars

---------------------------------------------------------------------------
(* load_agent_state on its own: __init__ run once against a state file     *)
(* with any content.                                                       *)

StoredEntry ==
    [file_path |-> <<"file://", "scraped_cheese_images", "hard", "b7", ".jpg">>,
     public_id |-> <<"cheese-collection/", "hard", "b7", "d4">>,
     tags |-> <<"cheese", "hard">>,
     context |-> <<"google-images", "creative-commons", "2025-05-31">>,
     added |-> "2025-05-31"]

FileKeys == StateKeys \cup {"version"}

\* objects with every key of FileKeys
FullObjects ==
    {[total_images_scraped |-> t, pending_uploads |-> p, daily_stats |-> d,
      version |-> 1] :
        t \in {0, 1},
        p \in {<<>>, <<StoredEntry>>},
        d \in {EmptyDict, [day \in {"2025-05-31"} |-> [scraped |-> 1]]}}

\* the objects a state file can hold: any of the keys may be missing
StoredObjects ==
    {[k \in ks |-> obj[k]] : obj \in FullObjects, ks \in SUBSET FileKeys}

StateFiles ==
    {Absent, Unparsable, JsonOther("scalar", {})}
        \cup {Json(obj) : obj \in StoredObjects}
        \cup {JsonOther(kind, ks) : kind \in {"array", "string"}, ks \in SUBSET FileKeys}

InitLoad ==
    /\ state_file \in StateFiles
    /\ disk = {}
    /\ today = 1
    /\ runs = 0
    /\ pc = "Idle"
    /\ max_loaded_total = 0
    /\ call = NoCall
    /\ NoProcess

NextLoad == Construct

SpecLoad == InitLoad /\ [][NextLoad]_vars

---------------------------------------------------------------------------
(* scrape_image_data on its own: one call for a page and a limit; the call *)
(* scans the page, or it fails (call.ok = FALSE).                          *)

\* the pages of up to MaxElements elements over three payloads
AllPages == UNION {[1..n -> 0..3] : n \in 0..MaxElements}

InitFetch ==
    /\ state_file = Absent
    /\ disk = {}
    /\ today = 1
    /\ runs = 0
    /\ pc = "Idle"
    /\ max_loaded_total = 0
    /\ NoProcess
    /\ \E pg \in AllPages, n \in 0..MaxLimit, ok \in BOOLEAN :
          call = [page |-> pg, limit |-> n, ok |-> ok, done |-> FALSE,
                  result |-> <<>>]

FetchCall ==
    /\ ~call.done
    /\ call' = [call EXCEPT
                    !.done = TRUE,
                    !.result = scrape_image_data([ok |-> call.ok, page |-> call.page],
                                                 call.limit)]
    /\ UNCHANGED <<disk, agent_vars>>

NextFetch == FetchCall

SpecFetch == InitFetch /\ [][NextFetch]_vars

---------------------------------------------------------------------------
(* Properties *)

FileURIs(uploads) == {uploads[i].file_path : i \in 1..Len(uploads)}

NoDuplicateURI(uploads) ==
    \A i, j \in 1..Len(uploads) :
        i # j => uploads[i].file_path # uploads[j].file_path

\* the run's body has ended: the finally block is about to run or has run
RunEnded == pc \in {"Finally", "Persisted"}

\* the entries the run appended to pending_uploads
AppendedCount == Len(state.pending_uploads) - Len(loaded.pending_uploads)
AppendedURIs ==
    {state.pending_uploads[i].file_path :
        i \in (Len(loaded.pending_uploads) + 1)..Len(state.pending_uploads)}

CandidateURIs ==
    {<<"file://">> \o candidates_found[i].file_path : i \in 1..Len(candidates_found)}

\* C1: pending_uploads never holds two entries with the same file_path,
\* in memory or in the state file, whatever the runs discover: the same
\* candidate in several runs, or twice in one run.
C1_DedupInvariant ==
    /\ NoDuplicateURI(state.pending_uploads)
    /\ NoDuplicateURI(load_agent_state(state_file).pending_uploads)

\* C1 witness: a merge of a candidate list that names one file twice, the
\* file being queued by an earlier run already.
C1_Witness ==
    /\ pc = "Finally"
    /\ outcome = "merged"
    /\ \E i, j \in 1..Len(candidates_found) :
          i < j /\ candidates_found[i].file_path = candidates_found[j].file_path
    /\ CandidateURIs \cap FileURIs(loaded.pending_uploads) # {}
    /\ Len(state.pending_uploads) > Len(loaded.pending_uploads)

\* C2: when the body of a run has ended, total_images_scraped is the loaded
\* value plus the number of entries the run appended, which is the number of
\* distinct candidate URIs not queued before (none when the run did not
\* merge), not the number of candidates; the loaded entries stay in front.
C2_ExactCounting ==
    RunEnded =>
        /\ state.total_images_scraped = loaded.total_images_scraped + AppendedCount
        /\ SubSeq(state.pending_uploads, 1, Len(loaded.pending_uploads))
              = loaded.pending_uploads
        /\ AppendedCount =
              IF outcome = "merged"
              THEN Cardinality(CandidateURIs \ FileURIs(loaded.pending_uploads))
              ELSE 0

\* C2 witness: a run that merges more candidates than it appends entries,
\* on top of a loaded total that is not 0.
C2_Witness ==
    /\ pc = "Persisted"
    /\ outcome = "merged"
    /\ loaded.total_images_scraped > 0
    /\ AppendedCount > 0
    /\ Len(candidates_found) > AppendedCount

\* C3: a run that has started discovery reaches Persisted (save_agent_state
\* has run), however discovery and the merge end.
C3_DiscoveringLeadsToPersisted == (pc = "Discovering") ~> (pc = "Persisted")

\* C3 witness: the finally block has run after an error in the run's body.
C3_Witness == pc = "Persisted" /\ outcome = "raised"

C5_FailedSaveKeepsPersisted ==
    (pc = "Persisted" /\ save_result \in {"open_fails", "dump_fails"}) =>
        load_agent_state(state_file) = load_agent_state(file_at_start)

\* C6: the total_images_scraped a process loads is never smaller than the
\* value an earlier process loaded.
C6_LoadedTotalMonotone ==
    pc # "Idle" => loaded.total_images_scraped >= max_loaded_total

EntriesAddedOn(uploads, d) ==
    Cardinality({i \in 1..Len(uploads) : uploads[i].added = d})

\* every bucket counts the queued entries appended on its date, and every
\* entry's date has a bucket
DailyAccounting(st) ==
    /\ \A d \in DOMAIN st.daily_stats :
          st.daily_stats[d].scraped = EntriesAddedOn(st.pending_uploads, d)
    /\ \A i \in 1..Len(st.pending_uploads) :
          st.pending_uploads[i].added \in DOMAIN st.daily_stats

Scraped(stats, d) == IF d \in DOMAIN stats THEN stats[d].scraped ELSE 0

\* the run added to today's bucket what it added to the total, and left the
\* other buckets alone
BucketFollowsTotal ==
    /\ today_str \in DOMAIN state.daily_stats
    /\ Scraped(state.daily_stats, today_str) - Scraped(loaded.daily_stats, today_str)
          = state.total_images_scraped - loaded.total_images_scraped
    /\ DOMAIN state.daily_stats = DOMAIN loaded.daily_stats \cup {today_str}
    /\ \A d \in DOMAIN loaded.daily_stats :
          d # today_str => state.daily_stats[d] = loaded.daily_stats[d]

\* C7 as stated: every bucket counts the entries appended on its date, and
\* every run, once its body has ended, has a bucket for its date that grew
\* by what the total grew by.
C7_EveryRunCreatesBucket ==
    /\ DailyAccounting(state)
    /\ DailyAccounting(load_agent_state(state_file))
    /\ RunEnded => BucketFollowsTotal

\* C7 as amended: every bucket counts the queued entries appended on its
\* date; a run whose merge completed has a bucket for its date that grew by
\* what the total grew by; a run that ended before the merge left
\* daily_stats as loaded.
C7_DailyAccounting ==
    /\ DailyAccounting(state)
    /\ DailyAccounting(load_agent_state(state_file))
    /\ RunEnded =>
          IF outcome = "merged" THEN BucketFollowsTotal
          ELSE state.daily_stats = loaded.daily_stats

\* C7 witness: a merge on a date without a bucket, another date having one,
\* that appends an entry.
C7_Witness ==
    /\ pc = "Persisted"
    /\ outcome = "merged"
    /\ today_str \notin DOMAIN loaded.daily_stats
    /\ DOMAIN loaded.daily_stats # {}
    /\ state.daily_stats[today_str].scraped > 0

\* the reasons for which the validator rejects a payload
Rejected(p) ==
    \/ ~Payload[p].sep
    \/ ~Payload[p].b64
    \/ Payload[p].len > 10 * 1024 * 1024
    \/ ~Payload[p].img
    \/ Payload[p].w < 100
    \/ Payload[p].h < 100

\* C8: no candidate is made from a rejected payload; the payloads of the
\* page after a rejected one are still processed, so every payload of the
\* page processed so far that is not rejected has its candidate; what a run
\* appends, adds to the total and adds to a bucket comes from its candidates.
C8_RejectedNeverCounted ==
    /\ \A i \in 1..Len(candidates_found) : ~Rejected(candidates_found[i].src)
    /\ (pc = "Discovering" /\ in_images) =>
          \A k \in 1..(img_idx - 1) :
              ~Rejected(image_data_list[k]) =>
                  \E i \in 1..Len(candidates_found) :
                      /\ candidates_found[i].src = image_data_list[k]
                      /\ candidates_found[i].cheese_type = Types[type_idx]
    /\ RunEnded =>
          /\ AppendedURIs \subseteq CandidateURIs
          /\ state.total_images_scraped - loaded.total_images_scraped
                <= Len(candidates_found)
          /\ \A d \in DOMAIN state.daily_stats :
                state.daily_stats[d].scraped - Scraped(loaded.daily_stats, d)
                   <= Len(candidates_found)

\* C8 witness: a page with an oversize payload, a 50x50 image and a good
\* image gave one candidate, and the run counted one.
C8_Witness ==
    /\ pc = "Persisted"
    /\ outcome = "merged"
    /\ image_data_list = <<7, 3, 1>>
    /\ processed_count > Len(candidates_found)
    /\ Len(candidates_found) = 1
    /\ state.total_images_scraped = loaded.total_images_scraped + 1

\* C9: a call of save_base64_image that wrote a file and rejected the
\* payload leaves no file of that name.
C9_RejectLeavesNoFile ==
    (call.done /\ call.result.ret = None /\ call.result.trace # <<>>) =>
        ~Exists(disk, Filename(call.type, call.payload))

Accepted(p) ==
    /\ Payload[p].sep
    /\ Payload[p].b64
    /\ Payload[p].len <= 10 * 1024 * 1024
    /\ Payload[p].img
    /\ Payload[p].w >= 100
    /\ Payload[p].h >= 100

\* C10: save_base64_image returns the file's path exactly for a payload with
\* a separator, a body that decodes, at most 10 MiB of bytes and an image of
\* at least 100x100, and the file then holds the bytes; an oversize payload
\* is rejected with no file operation; an image with a side under 100 is
\* rejected after its file was written and then removed.
C10_AcceptanceAndOrder ==
    call.done =>
        LET p == call.payload
            name == Filename(call.type, p)
            r == call.result
        IN  /\ (r.ret # None) <=> Accepted(p)
            /\ r.ret # None =>
                  /\ r.ret = FilePath(name)
                  /\ [name |-> name, data |-> Payload[p].bytes] \in disk
            /\ (Payload[p].sep /\ Payload[p].b64 /\ Payload[p].len > 10 * 1024 * 1024) =>
                  (r.trace = <<>> /\ disk = call.before)
            /\ (Payload[p].sep /\ Payload[p].b64 /\ Payload[p].len <= 10 * 1024 * 1024
                  /\ Payload[p].img /\ (Payload[p].w < 100 \/ Payload[p].h < 100)) =>
                  (r.trace = <<"write", "unlink">> /\ ~Exists(disk, name))

\* C10 witness: the call for the 50x50 image wrote the file, removed it and
\* returned None.
C10_Witness ==
    /\ call.done
    /\ Payload[call.payload].w = 50
    /\ Payload[call.payload].h = 50
    /\ call.result.ret = None
    /\ call.result.trace = <<"write", "unlink">>
    /\ disk = {}

\* the target count is reached
TargetReached == Len(candidates_found) >= max_total_images

\* C11: find_and_download_candidates never holds more candidates than the
\* target count; it calls scrape_image_data for the categories in list
\* order, each at most once; and once the target is reached it starts no
\* browser session, calls scrape_image_data no more, validates no payload,
\* writes no file and adds no candidate.
C11_TargetCap ==
    /\ [](Len(candidates_found) <= max_total_images)
    /\ [](\A i \in 1..Len(fetch_log) : fetch_log[i].type = i)
    /\ [][TargetReached =>
            /\ fetch_log' = fetch_log
            /\ open_sessions' = open_sessions
            /\ processed_count' = processed_count
            /\ candidates_found' = candidates_found
            /\ disk' = disk]_vars

\* C11 witness: the target 3 is reached in the second category while a
\* payload of its page is still to come.
C11_Witness ==
    /\ pc = "Discovering"
    /\ max_total_images = 3
    /\ Len(candidates_found) = 3
    /\ type_idx = 2
    /\ in_images
    /\ img_idx <= Len(image_data_list)

CandidatesOfType(t) ==
    {i \in 1..Len(candidates_found) : candidates_found[i].cheese_type = Types[t]}

IsPrefix(a, b) == Len(a) <= Len(b) /\ SubSeq(b, 1, Len(a)) = a

\* C12: a call of scrape_image_data that failed (the driver did not start,
\* or get(), the wait or the scan raised) returns the empty list and its
\* category gives no candidate; find_and_download_candidates raises only at
\* a payload it cannot encode, never because of a fetch; when it returns,
\* every category after a failed one has been fetched too; and the
\* candidates gathered are kept, in order, to the end.
C12_FetchFailureIsLocal ==
    /\ [](\A i \in 1..Len(fetch_log) :
            fetch_log[i].error # "none" =>
                /\ CandidatesOfType(fetch_log[i].type) = {}
                /\ (type_idx = fetch_log[i].type /\ in_fetch # "try") =>
                        image_data_list = <<>>
                /\ (pc = "Returned" /\ i < Len(Types)) => Len(fetch_log) > i)
    /\ [](pc = "Raised" =>
            /\ in_images
            /\ ~Payload[image_data_list[img_idx]].utf8)
    /\ [][IsPrefix(candidates_found, candidates_found')]_vars

\* C12 witness: the fetch of the first category failed after its session
\* had started, and the call returned candidates of the second category.
C12_Witness ==
    /\ pc = "Returned"
    /\ Len(fetch_log) = 2
    /\ fetch_log[1].error = "scan"
    /\ fetch_log[2].error = "none"
    /\ candidates_found # <<>>
    /\ CandidatesOfType(2) = 1..Len(candidates_found)

\* C13: a browser session is open only inside the call of scrape_image_data
\* that started it, which holds its driver: none is open once the call has
\* returned, whatever the page gave (payloads, nothing, a timeout or another
\* error), so never two at once and none when find_and_download_candidates
\* has returned or raised.
C13_SessionClosedOnEveryPath ==
    /\ open_sessions = (IF driver THEN 1 ELSE 0)
    /\ driver => in_fetch # "no"
    /\ in_fetch = "no" => open_sessions = 0
    /\ pc \in {"Returned", "Raised"} => open_sessions = 0

\* C13 witness: a call whose session had started and whose scan raised has
\* returned, after an earlier call that returned payloads.
C13_Witness ==
    /\ pc = "Discovering"
    /\ in_fetch = "no"
    /\ in_images
    /\ Len(fetch_log) = 2
    /\ fetch_log[1].error = "none"
    /\ fetch_log[2].error = "scan"
    /\ candidates_found # <<>>
    /\ open_sessions = 0

\* C14: after load_agent_state the in-memory state has every key of the
\* schema, whatever the state file holds; a key a stored object has keeps
\* its stored value, every other key has its default.
C14_LoadedStateHasEveryKey ==
    pc = "Constructed" =>
        /\ StateKeys \subseteq DOMAIN state
        /\ \A k \in StateKeys :
              state[k] = IF state_file.kind = "json" /\ k \in DOMAIN state_file.value
                         THEN state_file.value[k]
                         ELSE default_state[k]

\* C15: a run whose discovery or whose hashing of a candidate file raised
\* goes on to the end of run(), where it returns normally, and a run whose
\* save failed is at that end too: no failure leaves run() as an error.
C15_RunAbsorbsFailures ==
    /\ (outcome = "raised") ~> (pc = "Persisted")
    /\ [](save_result \in {"open_fails", "dump_fails"} => pc = "Persisted")

\* C15 witness: a run in which hashing a candidate file raised and the save
\* failed is at its normal return.
C15_Witness ==
    /\ pc = "Persisted"
    /\ outcome = "raised"
    /\ candidates_found # <<>>
    /\ save_result = "dump_fails"

\* the fetch of the i-th category returned as many payloads as its limit
\* allows and all of them were valid, as far as they were looked at
FullYield(i) ==
    /\ fetch_log[i].got = (max_total_images \div Len(Types)) + 1
    /\ \/ Cardinality(CandidatesOfType(fetch_log[i].type)) = fetch_log[i].got
       \/ i = Len(fetch_log) /\ TargetReached

\* C16: no call of scrape_image_data returns more than
\* max_total_images // len(cheese_types) + 1 payloads, and when
\* find_and_download_candidates has returned after fetches that each gave
\* that many valid payloads, every category, the last one too, has a
\* candidate in the result.
C16_NoCategoryStarved ==
    /\ \A i \in 1..Len(fetch_log) :
          fetch_log[i].got <= (max_total_images \div Len(Types)) + 1
    /\ (/\ pc = "Returned"
        /\ fetch_log # <<>>
        /\ \A i \in 1..Len(fetch_log) : FullYield(i))
          => \A t \in 1..Len(Types) : CandidatesOfType(t) # {}

\* the data:image sources of a page
SourcesOf(page) == {page[i] : i \in 1..Len(page)} \ {0}

\* where a source first occurs on a page
FirstIndex(page, src) ==
    CHOOSE i \in 1..Len(page) :
        page[i] = src /\ \A j \in 1..(i - 1) : page[j] # src

\* C17: scrape_image_data returns at most max_images payloads, none of them
\* twice, each a data:image source of the page, in the order of their first
\* occurrence on the page; a call that scanned the page returns the first
\* max_images distinct sources, or all of them when there are fewer, so an
\* element without such a source does not end the scan.
C17_FetchResultShape ==
    call.done =>
        LET r == call.result
            pg == call.page
        IN  /\ Len(r) <= call.limit
            /\ \A i, j \in 1..Len(r) : i # j => r[i] # r[j]
            /\ \A i \in 1..Len(r) : r[i] \in SourcesOf(pg)
            /\ \A i, j \in 1..Len(r) :
                  i < j => FirstIndex(pg, r[i]) < FirstIndex(pg, r[j])
            /\ call.ok =>
                  /\ Len(r) = IF call.limit < Cardinality(SourcesOf(pg))
                              THEN call.limit ELSE Cardinality(SourcesOf(pg))
                  /\ \A src \in SourcesOf(pg) :
                        (\E i \in 1..Len(r) :
                            FirstIndex(pg, src) < FirstIndex(pg, r[i]))
                          => src \in Range(r)

\* C17 witness: a page that starts with an element without a source and
\* repeats a source gave the two sources behind that element, once each.
C17_Witness ==
    /\ call.done
    /\ call.ok
    /\ call.page = <<0, 1, 1, 2>>
    /\ call.limit = 2
    /\ call.result = <<1, 2>>

RECURSIVE SumScraped(_, _)
\* the sum of stats[d].scraped over the dates of ds
SumScraped(stats, ds) ==
    IF ds = {} THEN 0
    ELSE LET d == CHOOSE x \in ds : TRUE
         IN  stats[d].scraped + SumScraped(stats, ds \ {d})

CountersAgree(st) ==
    /\ st.total_images_scraped = Len(st.pending_uploads)
    /\ st.total_images_scraped = SumScraped(st.daily_stats, DOMAIN st.daily_stats)

\* C18: starting from the empty state, total_images_scraped equals the
\* number of entries of pending_uploads and the sum of the buckets of
\* daily_stats, in memory and in what the state file loads to, after any
\* runs, failed ones included.
C18_CountersAgree ==
    /\ CountersAgree(state)
    /\ CountersAgree(load_agent_state(state_file))

\* C18 witness: the state file holds entries of two dates after a run that
\* merged a candidate already queued and a new one.
C18_Witness ==
    /\ pc = "Persisted"
    /\ save_result = "ok"
    /\ outcome = "merged"
    /\ Cardinality(DOMAIN state.daily_stats) = 2
    /\ \A d \in DOMAIN state.daily_stats : state.daily_stats[d].scraped > 0
    /\ CandidateURIs \cap FileURIs(loaded.pending_uploads) # {}
    /\ state.total_images_scraped >= 2

\* the run's body ended when the file of a candidate could not be read
HashingRaised == RunEnded /\ outcome = "raised" /\ ~in_images

\* C19: when the file of one of a run's candidates cannot be read for
\* hashing, the run appends no entry, not even for the candidates before
\* that one: pending_uploads, total_images_scraped and daily_stats are as
\* loaded, and a save that succeeds writes the state the run loaded.
C19_AllOrNothingMerge ==
    HashingRaised =>
        /\ state.pending_uploads = loaded.pending_uploads
        /\ state.total_images_scraped = loaded.total_images_scraped
        /\ state.daily_stats = loaded.daily_stats
        /\ (pc = "Persisted" /\ save_result = "ok") =>
              /\ state_file = Json(loaded)
              /\ load_agent_state(state_file) = load_agent_state(file_at_start)

\* C19 witness: the second candidate's file is gone, the first one's file
\* is there and was not queued before; the run saved the state it loaded,
\* which has an entry.
C19_Witness ==
    /\ HashingRaised
    /\ pc = "Persisted"
    /\ save_result = "ok"
    /\ Len(candidates_found) = 2
    /\ Exists(disk, candidates_found[1].id)
    /\ ~Exists(disk, candidates_found[2].id)
    /\ <<"file://">> \o candidates_found[1].file_path
          \notin FileURIs(loaded.pending_uploads)
    /\ loaded.pending_uploads # <<>>

\* C20 as stated: a run that appended no entry ends with the state it
\* loaded.
C20_NoOpRunLeavesState ==
    (RunEnded /\ AppendedCount = 0) => state = loaded

\* C20 as amended: a run that appended no entry ends with pending_uploads,
\* total_images_scraped and every loaded bucket of daily_stats as loaded; if
\* its merge completed (every candidate was queued already), daily_stats has
\* a bucket for the run's date, with 0 when the date had none; otherwise the
\* whole state is as loaded.
C20_NoOpRunAddsAtMostBucket ==
    (RunEnded /\ AppendedCount = 0) =>
        /\ state.pending_uploads = loaded.pending_uploads
        /\ state.total_images_scraped = loaded.total_images_scraped
        /\ \A d \in DOMAIN loaded.daily_stats :
              d \in DOMAIN state.daily_stats
                 /\ state.daily_stats[d] = loaded.daily_stats[d]
        /\ IF outcome = "merged"
           THEN /\ DOMAIN state.daily_stats = DOMAIN loaded.daily_stats \cup {today_str}
                /\ today_str \notin DOMAIN loaded.daily_stats =>
                       state.daily_stats[today_str] = [scraped |-> 0]
           ELSE state = loaded

\* C20 witness: on a date without a bucket, a run whose candidates were all
\* queued by an earlier run has merged.
C20_Witness ==
    /\ RunEnded
    /\ outcome = "merged"
    /\ AppendedCount = 0
    /\ loaded.pending_uploads # <<>>
    /\ today_str \notin DOMAIN loaded.daily_stats
    /\ state.daily_stats[today_str].scraped = 0

===========================================================================
